---- MODULE Spec2Model ----
(***************************************************************************)
(* Model of variance_thresholding(df_encoded, threshold_value) from the    *)
(* notebook "Linear Regression/Regularisation and Data_scaling.ipynb".     *)
(*                                                                         *)
(* The function drops the 'Yield' column, min-max scales the remaining     *)
(* columns with sklearn's MinMaxScaler, selects columns with sklearn's     *)
(* VarianceThreshold and rebuilds two labelled tables.                     *)
(*                                                                         *)
(* Floating-point numbers are modelled as exact rationals <<n, d>> in      *)
(* lowest terms with d > 0; <<0, 0>> stands for NaN (the result of a       *)
(* division by zero).  Rounding is therefore not modelled.                 *)
(***************************************************************************)
EXTENDS Integers, Sequences, FiniteSets, TLC

VARIABLES pc, df_encoded, threshold_value, X, y, scaler, df_scaled,
          selector, df_filtered, ret, buf, calls, first, dtype

vars == <<pc, df_encoded, threshold_value, X, y, scaler, df_scaled,
          selector, df_filtered, ret, buf, calls, first, dtype>>

(***************************************************************************)
(* Bounds of the model.                                                    *)
(***************************************************************************)
MaxRows == 3
MaxFeat == 2
MaxCells == 6
MaxCalls == 3

\* cell values of the feature columns
Values == {0, 5, 10}

\* names of the feature columns, in table order
FeatureNames == <<"A", "B", "C", "D">>

\* thresholds a caller may pass (rationals n/d)
Thresholds == {<<-1, 100>>, <<0, 1>>, <<1, 100>>, <<1, 6>>, <<2, 9>>}

(***************************************************************************)
(* Rational arithmetic standing for float64 arithmetic.                    *)
(***************************************************************************)
NaN == <<0, 0>>

Abs(a) == IF a < 0 THEN -a ELSE a

RECURSIVE GCD(_, _)
GCD(a, b) == IF b = 0 THEN a ELSE GCD(b, a % b)

Norm(n, d) ==
    IF d = 0 THEN NaN
    ELSE LET g == GCD(Abs(n), Abs(d))
             s == IF d < 0 THEN -1 ELSE 1
         IN  <<(s * n) \div g, (s * d) \div g>>

Float(i) == <<i, 1>>

IsNaN(a) == a[2] = 0

FAdd(a, b) == IF IsNaN(a) \/ IsNaN(b) THEN NaN
              ELSE Norm(a[1] * b[2] + b[1] * a[2], a[2] * b[2])

FSub(a, b) == IF IsNaN(a) \/ IsNaN(b) THEN NaN
              ELSE Norm(a[1] * b[2] - b[1] * a[2], a[2] * b[2])

FMul(a, b) == IF IsNaN(a) \/ IsNaN(b) THEN NaN
              ELSE Norm(a[1] * b[1], a[2] * b[2])

FDiv(a, b) == IF IsNaN(a) \/ IsNaN(b) \/ b[1] = 0 THEN NaN
              ELSE Norm(a[1] * b[2], a[2] * b[1])

\* comparisons with a NaN operand are false, as in IEEE 754
FLe(a, b) == ~IsNaN(a) /\ ~IsNaN(b) /\ a[1] * b[2] <= b[1] * a[2]
FLt(a, b) == ~IsNaN(a) /\ ~IsNaN(b) /\ a[1] * b[2] < b[1] * a[2]
FGt(a, b) == FLt(b, a)
FGe(a, b) == FLe(b, a)

FMin(a, b) == IF IsNaN(a) THEN b ELSE IF IsNaN(b) THEN a
              ELSE IF FLe(a, b) THEN a ELSE b
FMax(a, b) == IF IsNaN(a) THEN b ELSE IF IsNaN(b) THEN a
              ELSE IF FLe(a, b) THEN b ELSE a

(***************************************************************************)
(* Labelled tables (pandas DataFrame) and arrays (numpy ndarray).          *)
(* An array is [shape |-> <<rows, cols>>, data |-> sequence of rows].      *)
(* A DataFrame is an array plus the sequence of its column labels.         *)
(***************************************************************************)
DataFrame(arr, cols) ==
    [columns |-> cols, shape |-> arr.shape, data |-> arr.data]

EmptyFrame == [columns |-> <<>>, shape |-> <<0, 0>>, data |-> <<>>]

\* the j-th column of an array, as a sequence over the rows
Column(a, j) == [i \in 1..a.shape[1] |-> a.data[i][j]]

\* positions at which a label occurs
Positions(cols, name) == {j \in 1..Len(cols) : cols[j] = name}

\* the increasing sequence of the elements of a set of positions
RECURSIVE SortedSeq(_)
SortedSeq(S) ==
    IF S = {} THEN <<>>
    ELSE LET m == CHOOSE a \in S : \A b \in S : a <= b
         IN  <<m>> \o SortedSeq(S \ {m})

\* take the columns at the given positions, in the given order
Take(df, idx) ==
    [columns |-> [p \in 1..Len(idx) |-> df.columns[idx[p]]],
     shape   |-> <<df.shape[1], Len(idx)>>,
     data    |-> [i \in 1..df.shape[1] |->
                    [p \in 1..Len(idx) |-> df.data[i][idx[p]]]]]

\* faulty variant: drops the last column whatever its label
Drop_Last(df, name) ==
    Take(df, SortedSeq(1..(Len(df.columns) - 1)))

\* df.drop(columns=[name])
Drop(df, name) ==
    Take(df, SortedSeq({j \in 1..Len(df.columns) : df.columns[j] # name}))

\* faulty variant: drop(..., inplace=True) removes the column from the
\* receiver itself
DropReceiver_InPlace(df, name) ==
    Take(df, SortedSeq({j \in 1..Len(df.columns) : df.columns[j] # name}))

\* the receiver of df.drop(columns=[name]) after the call: inplace is
\* False by default, the receiver keeps all its columns
DropReceiver(df, name) == df

\* df[name]
GetItem(df, name) ==
    Column(df, CHOOSE j \in Positions(df.columns, name) : TRUE)

(***************************************************************************)
(* sklearn.preprocessing.MinMaxScaler (feature_range = (0, 1)).            *)
(***************************************************************************)
\* check_array(dtype=float64): integer cells become floats
AsFloatArray(df) ==
    [shape |-> df.shape,
     data  |-> [i \in 1..df.shape[1] |->
                  [j \in 1..df.shape[2] |-> Float(df.data[i][j])]]]

\* check_array on a table whose cells have the given dtype: a table of
\* floats is taken as it is, a table of integers is converted
CheckArrayConvert(df, dt) ==
    IF dt = "float64" THEN [shape |-> df.shape, data |-> df.data]
    ELSE AsFloatArray(df)

\* check_array rejects an array with no sample or no feature
CheckArrayFails(a) == a.shape[1] < 1 \/ a.shape[2] < 1

\* faulty variant: the feature count is tested before the sample count
CheckArrayMessage_FeaturesFirst(a) ==
    IF a.shape[2] < 1 THEN "Found array with 0 feature(s)"
    ELSE IF a.shape[1] < 1 THEN "Found array with 0 sample(s)"
    ELSE ""

\* the message of check_array's ValueError: the sample count is tested
\* first, then the feature count
CheckArrayMessage(a) ==
    IF a.shape[1] < 1 THEN "Found array with 0 sample(s)"
    ELSE IF a.shape[2] < 1 THEN "Found array with 0 feature(s)"
    ELSE ""

RECURSIVE FoldMin(_, _)
FoldMin(col, n) ==
    IF n = 1 THEN col[1] ELSE FMin(FoldMin(col, n - 1), col[n])

RECURSIVE FoldMax(_, _)
FoldMax(col, n) ==
    IF n = 1 THEN col[1] ELSE FMax(FoldMax(col, n - 1), col[n])

\* np.nanmin(X, axis=0)[j] and np.nanmax(X, axis=0)[j]
NanMin(a, j) == FoldMin(Column(a, j), a.shape[1])
NanMax(a, j) == FoldMax(Column(a, j), a.shape[1])

\* faulty variant: a zero range is left as it is
HandleZerosInScale_Keep(r) == r

\* _handle_zeros_in_scale: a zero range is replaced by 1.0
HandleZerosInScale(r) == IF r = Float(0) THEN Float(1) ELSE r

\* faulty variant: scales by the column maximum instead of the range
MinMaxScalerFit_ByMax(a) ==
    LET k          == a.shape[2]
        data_min   == [j \in 1..k |-> NanMin(a, j)]
        data_max   == [j \in 1..k |-> NanMax(a, j)]
        scale      == [j \in 1..k |->
                         FDiv(FSub(Float(1), Float(0)),
                              HandleZerosInScale(data_max[j]))]
    IN  [fitted    |-> TRUE,
         data_min_ |-> data_min,
         data_max_ |-> data_max,
         scale_    |-> scale,
         min_      |-> [j \in 1..k |->
                          FSub(Float(0), FMul(data_min[j], scale[j]))]]

\* MinMaxScaler().fit(X) : the fitted attributes
MinMaxScalerFit(a) ==
    LET k          == a.shape[2]
        data_min   == [j \in 1..k |-> NanMin(a, j)]
        data_max   == [j \in 1..k |-> NanMax(a, j)]
        data_range == [j \in 1..k |-> FSub(data_max[j], data_min[j])]
        scale      == [j \in 1..k |->
                         FDiv(FSub(Float(1), Float(0)),
                              HandleZerosInScale(data_range[j]))]
    IN  [fitted    |-> TRUE,
         data_min_ |-> data_min,
         data_max_ |-> data_max,
         scale_    |-> scale,
         min_      |-> [j \in 1..k |->
                          FSub(Float(0), FMul(data_min[j], scale[j]))]]

\* faulty variant: a scaler left over from an earlier call is updated as by
\* partial_fit, its minima and maxima merged with those of the new data
MinMaxScalerNewFit_Partial(old, a) ==
    IF old.fitted /\ Len(old.data_min_) = a.shape[2]
    THEN LET k        == a.shape[2]
             data_min == [j \in 1..k |-> FMin(old.data_min_[j], NanMin(a, j))]
             data_max == [j \in 1..k |-> FMax(old.data_max_[j], NanMax(a, j))]
             scale    == [j \in 1..k |->
                            FDiv(Float(1),
                                 HandleZerosInScale(
                                     FSub(data_max[j], data_min[j])))]
         IN  [fitted    |-> TRUE,
              data_min_ |-> data_min,
              data_max_ |-> data_max,
              scale_    |-> scale,
              min_      |-> [j \in 1..k |->
                               FSub(Float(0), FMul(data_min[j], scale[j]))]]
    ELSE MinMaxScalerFit(a)

\* faulty variant: a scaler left over from an earlier call is used as it
\* is, without being fitted to the new data
MinMaxScalerNewFit_Reuse(old, a) ==
    IF old.fitted /\ Len(old.data_min_) = a.shape[2] THEN old
    ELSE MinMaxScalerFit(a)

\* scaler = MinMaxScaler() ; scaler.fit(X) : the name is bound to a new
\* estimator and fit starts from its reset state; whatever the name held
\* before (old) plays no part
MinMaxScalerNewFit(old, a) == MinMaxScalerFit(a)

\* faulty variant: multiplies by scale_ and forgets to add min_
MinMaxScalerTransform_NoShift(sc, a) ==
    [shape |-> a.shape,
     data  |-> [i \in 1..a.shape[1] |->
                  [j \in 1..a.shape[2] |-> FMul(a.data[i][j], sc.scale_[j])]]]

\* scaler.transform(X) : X *= scale_ ; X += min_
MinMaxScalerTransform(sc, a) ==
    [shape |-> a.shape,
     data  |-> [i \in 1..a.shape[1] |->
                  [j \in 1..a.shape[2] |->
                     FAdd(FMul(a.data[i][j], sc.scale_[j]), sc.min_[j])]]]

Unfitted == [fitted |-> FALSE, data_min_ |-> <<>>, data_max_ |-> <<>>,
             scale_ |-> <<>>, min_ |-> <<>>]

(***************************************************************************)
(* sklearn.feature_selection.VarianceThreshold.                            *)
(***************************************************************************)
RECURSIVE FoldSum(_, _)
FoldSum(col, n) ==
    IF n = 0 THEN Float(0) ELSE FAdd(FoldSum(col, n - 1), col[n])

\* np.mean over a column
Mean(col) == FDiv(FoldSum(col, Len(col)), Float(Len(col)))

\* np.nanvar(X, axis=0)[j] : population variance (ddof = 0)
NanVar(a, j) ==
    LET col == Column(a, j)
        m   == Mean(col)
        sq  == [i \in 1..Len(col) |->
                  FMul(FSub(col[i], m), FSub(col[i], m))]
    IN  Mean(sq)

\* np.ptp(X, axis=0)[j]
PeakToPeak(a, j) == FSub(NanMax(a, j), NanMin(a, j))

\* faulty variant: the threshold is not validated
ThresholdInvalid_Never(t) == FALSE

\* the parameter constraint of VarianceThreshold: threshold in [0, inf)
ThresholdInvalid(t) == FLt(t, Float(0))

\* VarianceThreshold.fit : variances_, with the peak-to-peak guard that is
\* applied when the threshold is exactly zero
Variances(a, t) ==
    [j \in 1..a.shape[2] |->
        IF t = Float(0)
        THEN FMin(NanVar(a, j), PeakToPeak(a, j))
        ELSE NanVar(a, j)]

\* faulty variant: fit never raises
NoFeatureMeets_Never(v, t) == FALSE

\* fit raises when no feature has a finite variance above the threshold
NoFeatureMeets(v, t) ==
    \A j \in 1..Len(v) : IsNaN(v[j]) \/ FLe(v[j], t)

\* faulty variants: variances_ >= threshold, variances_ < threshold, and
\* the supported positions in decreasing order
GetSupport_GE(v, t) == SortedSeq({j \in 1..Len(v) : FGe(v[j], t)})

GetSupport_LT(v, t) == SortedSeq({j \in 1..Len(v) : FLt(v[j], t)})

GetSupport_Desc(v, t) ==
    LET up == SortedSeq({j \in 1..Len(v) : FGt(v[j], t)})
    IN  [p \in 1..Len(up) |-> up[Len(up) + 1 - p]]

\* selector.get_support(indices=True) : variances_ > threshold
GetSupport(v, t) == SortedSeq({j \in 1..Len(v) : FGt(v[j], t)})

\* faulty variant: the selected rows come out in reverse order
SelectorTransform_RowsReversed(a, v, t) ==
    LET idx == GetSupport(v, t)
        n   == a.shape[1]
    IN  [shape |-> <<n, Len(idx)>>,
         data  |-> [i \in 1..n |->
                      [p \in 1..Len(idx) |-> a.data[n + 1 - i][idx[p]]]]]

\* selector.transform(X) : X[:, mask]
SelectorTransform(a, v, t) ==
    LET idx == GetSupport(v, t)
    IN  [shape |-> <<a.shape[1], Len(idx)>>,
         data  |-> [i \in 1..a.shape[1] |->
                      [p \in 1..Len(idx) |-> a.data[i][idx[p]]]]]

NoSelector == [fitted |-> FALSE, threshold |-> Float(0), variances_ |-> <<>>]

\* faulty variant: the first labels instead of the labels at the indices
IndexLabels_Leading(cols, idx) == [p \in 1..Len(idx) |-> cols[p]]

\* df_scaled.columns[indices]
IndexLabels(cols, idx) == [p \in 1..Len(idx) |-> cols[idx[p]]]

(***************************************************************************)
(* The tables a caller may pass.  The feature columns carry the first k    *)
(* names of FeatureNames; the column 'Yield' is absent (yp = 0) or stands  *)
(* at position yp.  Row i of 'Yield' holds 100 + i.                        *)
(***************************************************************************)
MkTable(n, k, yp, f) ==
    LET w == IF yp = 0 THEN k ELSE k + 1
        feat(j) == IF yp = 0 \/ j < yp THEN j ELSE j - 1
    IN  [columns |-> [j \in 1..w |->
                        IF j = yp THEN "Yield" ELSE FeatureNames[feat(j)]],
         shape   |-> <<n, w>>,
         data    |-> [i \in 1..n |->
                        [j \in 1..w |->
                           IF j = yp THEN 100 + i ELSE f[i][feat(j)]]]]

\* df is one of the tables a caller may pass
IsTable(df) ==
    \E n \in 0..MaxRows : \E k \in 0..MaxFeat : \E yp \in 0..(k + 1) :
        /\ n * k <= MaxCells
        /\ \E f \in [1..n -> [1..k -> Values]] : df = MkTable(n, k, yp, f)

(***************************************************************************)
(* Memory: buf names the data buffer behind each table (0: none yet).      *)
(* The caller's table owns buffer 1.                                       *)
(***************************************************************************)
NoBuffers == [df_encoded |-> 1, X |-> 0, df_scaled |-> 0, df_filtered |-> 0]

Largest(a, b) == IF a >= b THEN a ELSE b

\* a buffer no table uses yet
NewBuffer(b) ==
    1 + Largest(Largest(b.df_encoded, b.X),
                Largest(b.df_scaled, b.df_filtered))

\* df.drop(columns=...) returns a new table
DropBuffer(b) == NewBuffer(b)

\* MinMaxScaler(copy=True).fit_transform(X) works on a copy of X;
\* pd.DataFrame(ndarray) wraps that array
FitTransformBuffer(b) == NewBuffer(b)

\* X[:, mask] with an index array is a copy; pd.DataFrame wraps it
SelectorTransformBuffer(b) == NewBuffer(b)

\* the inputs and the outcome of the first completed call (none yet)
NoFirst == [set |-> FALSE, table |-> EmptyFrame, threshold |-> Float(0),
            ret |-> [kind |-> "none", exc |-> "", msg |-> "", value |-> <<>>]]

NoReturn == [kind |-> "none", exc |-> "", msg |-> "", value |-> <<>>]

\* an exception of type e with message m leaves the function
RaiseWith(e, m) == [kind |-> "raise", exc |-> e, msg |-> m, value |-> <<>>]

Raise(e) == RaiseWith(e, "")

Init ==
    /\ pc = "drop"
    /\ IsTable(df_encoded)
    /\ threshold_value \in Thresholds
    /\ X = EmptyFrame
    /\ y = <<>>
    /\ scaler = Unfitted
    /\ df_scaled = EmptyFrame
    /\ selector = NoSelector
    /\ df_filtered = EmptyFrame
    /\ ret = NoReturn
    /\ buf = NoBuffers
    /\ calls = 1
    /\ first = NoFirst
    /\ dtype = "int64"

\* X = df_encoded.drop(columns=['Yield']) ; y = df_encoded['Yield']
SplitFeatures ==
    /\ pc = "drop"
    /\ IF Positions(df_encoded.columns, "Yield") = {}
       THEN /\ ret' = Raise("KeyError")
            /\ pc' = "done"
            /\ UNCHANGED <<df_encoded, X, y, buf>>
       ELSE /\ X' = Drop(df_encoded, "Yield")
            /\ df_encoded' = DropReceiver(df_encoded, "Yield")
            /\ buf' = [buf EXCEPT !.X = DropBuffer(buf)]
            \* line 720 reads the receiver after the drop
            /\ IF Positions(df_encoded'.columns, "Yield") = {}
               THEN /\ ret' = Raise("KeyError")
                    /\ pc' = "done"
                    /\ UNCHANGED y
               ELSE /\ y' = GetItem(df_encoded', "Yield")
                    /\ pc' = "scale"
                    /\ UNCHANGED ret
    /\ UNCHANGED <<threshold_value, scaler, df_scaled, selector,
                   df_filtered, calls, first, dtype>>

\* scaler = MinMaxScaler() ; scaled_features = scaler.fit_transform(X)
\* df_scaled = pd.DataFrame(scaled_features, columns=X.columns)
ScaleFeatures ==
    /\ pc = "scale"
    /\ LET a == CheckArrayConvert(X, dtype)
       IN  IF CheckArrayFails(a)
           THEN /\ ret' = RaiseWith("ValueError", CheckArrayMessage(a))
                /\ pc' = "done"
                /\ UNCHANGED <<scaler, df_scaled, buf>>
           ELSE LET sc == MinMaxScalerNewFit(scaler, a)
                IN  /\ scaler' = sc
                    /\ df_scaled' =
                          DataFrame(MinMaxScalerTransform(sc, a), X.columns)
                    /\ buf' = [buf EXCEPT
                                  !.df_scaled = FitTransformBuffer(buf)]
                    /\ pc' = "select"
                    /\ UNCHANGED ret
    /\ UNCHANGED <<df_encoded, threshold_value, X, y, selector, df_filtered,
                   calls, first, dtype>>

\* selector = VarianceThreshold(threshold=threshold_value)
\* df_filtered_values = selector.fit_transform(df_scaled)
\* df_filtered = pd.DataFrame(df_filtered_values,
\*                 columns=df_scaled.columns[selector.get_support(indices=True)])
SelectFeatures ==
    /\ pc = "select"
    /\ LET t == threshold_value
           v == Variances(df_scaled, t)
       IN  IF ThresholdInvalid(t)
           THEN /\ ret' = Raise("InvalidParameterError")
                /\ pc' = "done"
                /\ UNCHANGED <<selector, df_filtered, buf>>
           ELSE IF NoFeatureMeets(v, t)
           THEN /\ ret' = Raise("ValueError")
                /\ pc' = "done"
                /\ selector' = [fitted |-> FALSE, threshold |-> t,
                                variances_ |-> v]
                /\ UNCHANGED <<df_filtered, buf>>
           ELSE /\ selector' = [fitted |-> TRUE, threshold |-> t,
                                variances_ |-> v]
                /\ df_filtered' =
                      DataFrame(SelectorTransform(df_scaled, v, t),
                                IndexLabels(df_scaled.columns,
                                            GetSupport(v, t)))
                /\ buf' = [buf EXCEPT
                              !.df_filtered = SelectorTransformBuffer(buf)]
                /\ pc' = "return"
                /\ UNCHANGED ret
    /\ UNCHANGED <<df_encoded, threshold_value, X, y, scaler, df_scaled,
                   calls, first, dtype>>

\* return df_filtered, df_scaled
Return ==
    /\ pc = "return"
    /\ ret' = [kind |-> "return", exc |-> "", msg |-> "",
               value |-> <<df_filtered, df_scaled>>]
    /\ pc' = "done"
    /\ UNCHANGED <<df_encoded, threshold_value, X, y, scaler, df_scaled,
                   selector, df_filtered, buf, calls, first, dtype>>

Next == SplitFeatures \/ ScaleFeatures \/ SelectFeatures \/ Return

Spec == Init /\ [][Next]_vars

(***************************************************************************)
(* Sequences of calls.  A further call starts once the previous one has    *)
(* returned or raised.  The locals of the finished call are garbage; the   *)
(* model leaves them as they are, so that a statement reading a leftover   *)
(* would make the outcome depend on the calls made before.                 *)
(***************************************************************************)
\* the tables of the calls of a sequence: 'A' and 'Yield', two rows
IsCallTable(df) ==
    \E f \in [1..2 -> [1..1 -> Values]] : df = MkTable(2, 1, 2, f)

CallThresholds == {<<1, 100>>, <<2, 9>>}

InitCalls ==
    /\ pc = "drop"
    /\ IsCallTable(df_encoded)
    /\ threshold_value \in CallThresholds
    /\ X = EmptyFrame
    /\ y = <<>>
    /\ scaler = Unfitted
    /\ df_scaled = EmptyFrame
    /\ selector = NoSelector
    /\ df_filtered = EmptyFrame
    /\ ret = NoReturn
    /\ buf = NoBuffers
    /\ calls = 1
    /\ first = NoFirst
    /\ dtype = "int64"

\* the caller calls variance_thresholding again
Call ==
    /\ pc = "done"
    /\ calls < MaxCalls
    /\ calls' = calls + 1
    /\ first' = IF first.set THEN first
                ELSE [set |-> TRUE, table |-> df_encoded,
                      threshold |-> threshold_value, ret |-> ret]
    /\ \E df \in {MkTable(2, 1, 2, f) : f \in [1..2 -> [1..1 -> Values]]} :
          df_encoded' = df
    /\ threshold_value' \in CallThresholds
    /\ pc' = "drop"
    /\ ret' = NoReturn
    /\ buf' = NoBuffers
    /\ UNCHANGED <<X, y, scaler, df_scaled, selector, df_filtered, dtype>>

NextCalls == Next \/ Call

SpecCalls == InitCalls /\ [][NextCalls]_vars

(***************************************************************************)
(* Feeding the scaled table of a call that returned back into the          *)
(* function: as it is, or with a 'Yield' column attached again.            *)
(***************************************************************************)
\* df with a float column 'Yield' appended
WithYield(df) ==
    [columns |-> Append(df.columns, "Yield"),
     shape   |-> <<df.shape[1], df.shape[2] + 1>>,
     data    |-> [i \in 1..df.shape[1] |->
                    Append(df.data[i], Float(100 + i))]]

\* the caller passes the scaled table it got to a second call, with the
\* same threshold
FeedBack ==
    /\ pc = "done"
    /\ ret.kind = "return"
    /\ calls = 1
    /\ calls' = 2
    /\ first' = [set |-> TRUE, table |-> df_encoded,
                 threshold |-> threshold_value, ret |-> ret]
    /\ \E attach \in BOOLEAN :
          df_encoded' = IF attach THEN WithYield(ret.value[2])
                        ELSE ret.value[2]
    /\ dtype' = "float64"
    /\ pc' = "drop"
    /\ ret' = NoReturn
    /\ buf' = NoBuffers
    /\ UNCHANGED <<threshold_value, X, y, scaler, df_scaled, selector,
                   df_filtered>>

NextFeed == Next \/ FeedBack

SpecFeed == Init /\ [][NextFeed]_vars

TypeOK ==
    /\ pc \in {"drop", "scale", "select", "return", "done"}
    /\ ret.kind \in {"none", "return", "raise"}
    /\ (pc = "done") <=> (ret.kind # "none")

(***************************************************************************)
(* Vocabulary of the properties: the call's outcome and the quantities of  *)
(* the contract, computed from the caller's table independently of the     *)
(* library operators above.                                                *)
(***************************************************************************)
Returned == pc = "done" /\ ret.kind = "return"
Raised == pc = "done" /\ ret.kind = "raise"

RetFiltered == ret.value[1]
RetScaled == ret.value[2]

\* positions of the feature columns (every column but 'Yield') in the input
FeaturePos ==
    SortedSeq({j \in 1..Len(df_encoded.columns) :
                  df_encoded.columns[j] # "Yield"})

NumFeatures == Len(FeaturePos)
NumRows == df_encoded.shape[1]

FeatureName(j) == df_encoded.columns[FeaturePos[j]]
FeatureCell(i, j) == df_encoded.data[i][FeaturePos[j]]
FeatureCells(j) == {FeatureCell(i, j) : i \in 1..NumRows}

ColMin(j) == CHOOSE m \in FeatureCells(j) : \A v \in FeatureCells(j) : m <= v
ColMax(j) == CHOOSE m \in FeatureCells(j) : \A v \in FeatureCells(j) : m >= v

IsConstant(j) == ColMin(j) = ColMax(j)

\* (table[c][i] - min(c)) / (max(c) - min(c))
ExpectedScaled(i, j) ==
    Norm(FeatureCell(i, j) - ColMin(j), ColMax(j) - ColMin(j))

\* population variance of a column of rationals: E[s^2] - E[s]^2
RECURSIVE SumTo(_, _)
SumTo(col, n) == IF n = 0 THEN Float(0) ELSE FAdd(SumTo(col, n - 1), col[n])

PopVar(col) ==
    LET n  == Len(col)
        s1 == SumTo(col, n)
        s2 == SumTo([i \in 1..n |-> FMul(col[i], col[i])], n)
    IN  FSub(FDiv(s2, Float(n)),
             FMul(FDiv(s1, Float(n)), FDiv(s1, Float(n))))

\* variance of column j of the scaled table that was returned
ScaledVar(j) == PopVar(Column(RetScaled, j))

Range(seq) == {seq[i] : i \in 1..Len(seq)}

\* the labels of cols at the positions satisfying P, in order
RECURSIVE IsSubsequence(_, _)
IsSubsequence(a, b) ==
    IF a = <<>> THEN TRUE
    ELSE IF b = <<>> THEN FALSE
    ELSE IF Head(a) = Head(b) THEN IsSubsequence(Tail(a), Tail(b))
    ELSE IsSubsequence(a, Tail(b))

\* the scaled table exists from the scaling step on
Scaled == scaler.fitted

C3_ScaledHasAllInputColumns ==
    Returned => RetScaled.columns = df_encoded.columns

(***************************************************************************)
(* C3 (amended): the scaled table has a rescaled copy of every column of   *)
(* the table passed in except 'Yield', which the function itself removes;  *)
(* the remaining columns keep their names and their order.                 *)
(***************************************************************************)
C3_ScaledHasAllButYield ==
    Returned =>
        /\ RetScaled.columns = [j \in 1..NumFeatures |-> FeatureName(j)]
        /\ "Yield" \notin Range(RetScaled.columns)
        /\ RetScaled.shape = <<NumRows, NumFeatures>>
        /\ \A j \in 1..NumFeatures : \A i \in 1..NumRows :
              \* an affine image of the same-named input column
              FMul(RetScaled.data[i][j], Float(ColMax(j) - ColMin(j))) =
                  IF IsConstant(j) THEN Float(0)
                  ELSE Float(FeatureCell(i, j) - ColMin(j))

\* a call returned for a table whose 'Yield' column stands between two
\* feature columns
C3_Witness ==
    /\ Returned
    /\ df_encoded.columns = <<"A", "Yield", "B">>
    /\ RetScaled.columns = <<"A", "B">>

(***************************************************************************)
(* C4: for every non-constant column c and row i the scaled value is       *)
(* (table[c][i] - min(c)) / (max(c) - min(c)), min and max taken over the  *)
(* rows of that column only.                                               *)
(***************************************************************************)
C4_MinMaxFormula ==
    Scaled =>
        \A j \in 1..NumFeatures : \A i \in 1..NumRows :
            ~IsConstant(j) => df_scaled.data[i][j] = ExpectedScaled(i, j)

\* two columns with different minima were scaled, one of them holding a
\* value strictly between its minimum and its maximum
C4_Witness ==
    /\ Scaled
    /\ NumFeatures = 2
    /\ ~IsConstant(1) /\ ~IsConstant(2)
    /\ ColMin(1) # ColMin(2)
    /\ \E i \in 1..NumRows : df_scaled.data[i][1] = <<1, 2>>

(***************************************************************************)
(* C5: for every non-constant column every scaled value lies in [0, 1], a  *)
(* row holding the column minimum is mapped to 0 and a row holding the     *)
(* column maximum is mapped to 1.                                          *)
(***************************************************************************)
C5_UnitInterval ==
    Scaled =>
        \A j \in 1..NumFeatures :
            ~IsConstant(j) =>
                /\ \A i \in 1..NumRows :
                      /\ FLe(Float(0), df_scaled.data[i][j])
                      /\ FLe(df_scaled.data[i][j], Float(1))
                /\ \E i \in 1..NumRows :
                      /\ FeatureCell(i, j) = ColMin(j)
                      /\ df_scaled.data[i][j] = Float(0)
                /\ \E i \in 1..NumRows :
                      /\ FeatureCell(i, j) = ColMax(j)
                      /\ df_scaled.data[i][j] = Float(1)

\* a non-constant column whose minimum is not 0 and whose maximum is not 1
\* was scaled
C5_Witness ==
    /\ Scaled
    /\ \E j \in 1..NumFeatures :
          ~IsConstant(j) /\ ColMin(j) = 5 /\ ColMax(j) = 10

(***************************************************************************)
(* C6: a constant input column raises no division-by-zero fault: every row *)
(* of its scaled column is 0, its scaled variance is 0, and for any        *)
(* threshold > 0 a call that returns drops it from the filtered table and  *)
(* keeps it in the scaled table.                                           *)
(***************************************************************************)
C6_ConstantColumn ==
    /\ Raised => ret.exc # "ZeroDivisionError"
    /\ Scaled =>
          \A j \in 1..NumFeatures :
              IsConstant(j) =>
                  /\ \A i \in 1..NumRows : df_scaled.data[i][j] = Float(0)
                  /\ PopVar(Column(df_scaled, j)) = Float(0)
                  /\ selector.variances_ # <<>> =>
                        selector.variances_[j] = Float(0)
                  /\ (Returned /\ FGt(threshold_value, Float(0))) =>
                        /\ FeatureName(j) \notin Range(RetFiltered.columns)
                        /\ FeatureName(j) \in Range(RetScaled.columns)

\* the worked example: A = [0, 5, 10], B constant, threshold 0.01 gives
\* scaled.A = [0, 1/2, 1], scaled.B = [0, 0, 0] and a filtered table with
\* exactly column A
C6_Witness ==
    /\ Returned
    /\ threshold_value = <<1, 100>>
    /\ df_encoded.columns = <<"A", "B", "Yield">>
    /\ Column(df_encoded, 1) = <<0, 5, 10>>
    /\ Column(df_encoded, 2) = <<5, 5, 5>>
    /\ Column(RetScaled, 1) = <<Float(0), <<1, 2>>, Float(1)>>
    /\ Column(RetScaled, 2) = <<Float(0), Float(0), Float(0)>>
    /\ RetFiltered.columns = <<"A">>

(***************************************************************************)
(* C7: the column names of the filtered table are a subsequence of the     *)
(* column names of the scaled table: every filtered column is a scaled     *)
(* column and the retained columns keep their relative order.              *)
(***************************************************************************)
C7_FilteredSubsequence ==
    (Returned /\ FGe(threshold_value, Float(0))) =>
        /\ IsSubsequence(RetFiltered.columns, RetScaled.columns)
        /\ Cardinality(Range(RetFiltered.columns)) = Len(RetFiltered.columns)

\* both columns of a two-column table were retained, and elsewhere only the
\* second one
C7_Witness ==
    /\ Returned
    /\ RetScaled.columns = <<"A", "B">>
    /\ RetFiltered.columns \in {<<"A", "B">>, <<"B">>}

(***************************************************************************)
(* C8: the scaled and the filtered table have as many rows as the input    *)
(* table, and the rows keep their input order.                             *)
(***************************************************************************)
C8_RowsPreserved ==
    Returned =>
        /\ RetScaled.shape[1] = NumRows
        /\ RetFiltered.shape[1] = NumRows
        /\ Len(RetScaled.data) = NumRows
        /\ Len(RetFiltered.data) = NumRows
        \* within a column the scaled rows are ordered as the input rows
        /\ \A j \in 1..NumFeatures : \A i1, i2 \in 1..NumRows :
              FeatureCell(i1, j) < FeatureCell(i2, j) =>
                  FLt(RetScaled.data[i1][j], RetScaled.data[i2][j])
        \* a filtered row is the scaled row of the same index
        /\ \A p \in 1..Len(RetFiltered.columns) : \A i \in 1..NumRows :
              \E j \in 1..NumFeatures :
                  /\ RetScaled.columns[j] = RetFiltered.columns[p]
                  /\ RetFiltered.data[i][p] = RetScaled.data[i][j]

\* a three-row table whose first column is not symmetric under row
\* reversal was scaled and filtered
C8_Witness ==
    /\ Returned
    /\ NumRows = 3
    /\ NumFeatures >= 1
    /\ FeatureCell(1, 1) < FeatureCell(3, 1)
    /\ FeatureName(1) \in Range(RetFiltered.columns)

(***************************************************************************)
(* C9: for the same table and thresholds 0 <= t1 <= t2 for which both      *)
(* calls succeed, the columns filtered at t1 include those filtered at t2. *)
(* The state holds the call at t1; the call at t2 is evaluated on the same *)
(* scaled table.                                                           *)
(***************************************************************************)
FilteredAt(t) ==
    IndexLabels(RetScaled.columns, GetSupport(Variances(RetScaled, t), t))

SucceedsAt(t) ==
    ~ThresholdInvalid(t) /\ ~NoFeatureMeets(Variances(RetScaled, t), t)

C9_Monotone ==
    (Returned /\ FGe(threshold_value, Float(0))) =>
        \A t2 \in Thresholds :
            (FLe(threshold_value, t2) /\ SucceedsAt(t2)) =>
                Range(FilteredAt(t2)) \subseteq Range(RetFiltered.columns)

\* a call returned two columns and the call at a larger threshold succeeds
\* with one column only
C9_Witness ==
    /\ Returned
    /\ Len(RetFiltered.columns) = 2
    /\ \E t2 \in Thresholds :
          /\ FLt(threshold_value, t2)
          /\ SucceedsAt(t2)
          /\ Len(FilteredAt(t2)) = 1

(***************************************************************************)
(* C10: a call with a negative threshold fails with an invalid-input error *)
(* for every table and returns neither a scaled nor a filtered table.      *)
(***************************************************************************)
InvalidInputErrors == {"KeyError", "ValueError", "InvalidParameterError"}

C10_NegativeThresholdRaises ==
    (pc = "done" /\ FLt(threshold_value, Float(0))) =>
        /\ ret.kind = "raise"
        /\ ret.exc \in InvalidInputErrors
        /\ ret.value = <<>>

\* a well-formed table with a negative threshold was rejected by the
\* selector's parameter check
C10_Witness ==
    /\ Raised
    /\ FLt(threshold_value, Float(0))
    /\ ret.exc = "InvalidParameterError"
    /\ NumFeatures = 2 /\ NumRows = 3

(***************************************************************************)
(* C11: a call on a table with zero rows fails with the empty-table        *)
(* condition (the scaler's ValueError "0 sample(s)"), a call on a table    *)
(* with rows but zero feature columns fails with an invalid-input error    *)
(* (the scaler's ValueError "0 feature(s)"); either way the call raises    *)
(* and returns no table.  A table without 'Yield' fails earlier, with a    *)
(* KeyError.                                                               *)
(***************************************************************************)
HasYield == Positions(df_encoded.columns, "Yield") # {}

C12_Pure ==
    /\ [][/\ df_encoded' = df_encoded
          /\ buf'.df_encoded = buf.df_encoded]_vars
    /\ [](Returned =>
            /\ buf.df_scaled # 0 /\ buf.df_filtered # 0
            /\ buf.df_scaled # buf.df_encoded
            /\ buf.df_filtered # buf.df_encoded
            /\ buf.df_scaled # buf.df_filtered)

\* a call returned for a table whose 'Yield' column stands first, and the
\* table still has it
C12_Witness ==
    /\ Returned
    /\ df_encoded.columns = <<"Yield", "A", "B">>
    /\ NumRows = 3
    /\ buf.df_filtered # 0

(***************************************************************************)
(* C13: in any sequence of calls the outcome of a call depends only on     *)
(* that call's table and threshold: a call with the table and threshold    *)
(* of the first call of the sequence ends as the first call did (same      *)
(* scaled and filtered tables, or same exception), whatever calls were     *)
(* made in between.                                                        *)
(***************************************************************************)
C13_HistoryIndependent ==
    (pc = "done" /\ first.set /\ first.table = df_encoded
                 /\ first.threshold = threshold_value) =>
        ret = first.ret

\* the third call of a sequence repeats the first one and returns
C13_Witness ==
    /\ Returned
    /\ calls = 3
    /\ first.set /\ first.table = df_encoded
    /\ first.threshold = threshold_value
    /\ scaler.fitted
    /\ Column(df_encoded, 1) = <<0, 5>>
    /\ Column(RetScaled, 1) = <<Float(0), Float(1)>>

(***************************************************************************)
(* C14 (as stated): feeding the scaled output of a call back through the   *)
(* operation returns a scaled table equal to the table fed in.             *)
(***************************************************************************)
FedBack == calls = 2 /\ dtype = "float64"

\* the scaled table that was fed in
FedScaled == first.ret.value[2]

C14_FeedBackReturnsSame ==
    (FedBack /\ pc = "done") => (ret.kind = "return" /\ RetScaled = FedScaled)

(***************************************************************************)
(* C14 (amended): applying the scaling step to an already-scaled table     *)
(* yields the same table; the scaled output fed back through               *)
(* variance_thresholding raises KeyError because it has no 'Yield' column, *)
(* and with a 'Yield' column attached again the call returns a scaled      *)
(* table equal to the scaled table fed in.                                 *)
(***************************************************************************)
C14_RescalingIsIdentity ==
    FedBack =>
        /\ (pc \in {"select", "return"}) => df_scaled = FedScaled
        /\ (pc = "done" /\ ~HasYield) =>
              ret.kind = "raise" /\ ret.exc = "KeyError"
        /\ (pc = "done" /\ HasYield) =>
              ret.kind = "return" /\ RetScaled = FedScaled

\* a scaled table whose first column came from cells between 5 and 10 was
\* fed back with 'Yield' attached and scaled again
C14_Witness ==
    /\ FedBack
    /\ Returned
    /\ HasYield
    /\ RetScaled.shape = <<3, 2>>
    /\ \E i \in 1..3 : first.table.data[i][1] = 5
    /\ \E i \in 1..3 : first.table.data[i][1] = 10
    /\ \A i \in 1..3 : first.table.data[i][1] # 0
    /\ first.table.columns[1] = "A"
    /\ \E i \in 1..3 : RetScaled.data[i][2] = <<1, 2>>

(***************************************************************************)
(* C15: whenever the function returns, the filtered table has at least one *)
(* column and each of its columns holds, row for row, the scaled values of *)
(* the same-named column of the scaled table; when no column's scaled      *)
(* variance passes the threshold the call raises instead of returning a    *)
(* filtered table without columns.                                         *)
(***************************************************************************)
NonePasses ==
    \A j \in 1..Len(df_scaled.columns) :
        ~FGt(PopVar(Column(df_scaled, j)), threshold_value)

C15_FilteredNeverEmpty ==
    /\ Returned =>
          /\ Len(RetFiltered.columns) >= 1
          /\ RetFiltered.shape = <<NumRows, Len(RetFiltered.columns)>>
          /\ \A p \in 1..Len(RetFiltered.columns) :
                /\ Cardinality(Positions(RetScaled.columns,
                                         RetFiltered.columns[p])) = 1
                /\ \A j \in Positions(RetScaled.columns,
                                      RetFiltered.columns[p]) :
                      Column(RetFiltered, p) = Column(RetScaled, j)
    /\ (pc = "done" /\ Scaled /\ FGe(threshold_value, Float(0))
                    /\ NonePasses) =>
          /\ ret.kind = "raise"
          /\ ret.exc = "ValueError"
          /\ ret.value = <<>>

\* two non-constant columns, of scaled variance 1/6 and 2/9, were scaled
\* and the threshold 2/9 let none of them pass
C15_Witness ==
    /\ Raised
    /\ Scaled
    /\ threshold_value = <<2, 9>>
    /\ NumFeatures = 2
    /\ PopVar(Column(df_scaled, 1)) = <<1, 6>>
    /\ PopVar(Column(df_scaled, 2)) = <<2, 9>>
    /\ ret.exc = "ValueError"

====
